---------------------------- MODULE Spec2Model ----------------------------
(***************************************************************************)
(* State-machine model of the two storefront widgets of the repository:    *)
(*   SizeGuideDrawer                    src/assets/size-guide-drawer.js    *)
(*   ProductMediaGalleryMainThumbnails  src/unnamed/part_000               *)
(*                                                                         *)
(* The DOM is modelled by the attributes, classes, parents and listeners   *)
(* the two controllers read and write.  requestAnimationFrame callbacks    *)
(* and onAnimationEnd continuations are closures kept in `frames` and      *)
(* `anims` until the browser runs them.                                    *)
(***************************************************************************)
EXTENDS Integers, Sequences, FiniteSets, Bags, TLC

(***************************************************************************)
(* Bounds of the model.                                                    *)
(***************************************************************************)
\* pending continuations (frames + animation-end) a drawer call may add to
MaxPending == 2
\* identities available for the click closures created by open()
MaxHandlers == 2
\* thumbnails of the largest gallery
MaxThumbs == 3

(***************************************************************************)
(* Program constants.                                                      *)
(***************************************************************************)
\* || 3, || 100, || 10: the defaults of the CSS custom properties
ThumbnailsPerViewDefault == 3
ThumbnailSize == 100
ThumbnailGap == 10
\* the margin ensureThumbnailVisible adds to its scroll
VisibleMargin == 10

VARIABLES
    \* ---- SizeGuideDrawer ----
    shape,          \* markup of the component: which sub-elements exist
    openAttr,       \* details -> the 'open' attribute is present
    ariaExpanded,   \* details -> aria-expanded of its summary ("true"/"false")
    menuOpen,       \* details -> the 'menu-open' class is present
    wrapperMenuOpen,\* 'menu-open' class on #drawerWrapper
    pointerEvents,  \* #drawerWrapper.style.pointerEvents
    bodyOverflow,   \* document.body.style.overflow
    panelParent,    \* parent of .size-guide-drawer
    backdropParent, \* parent of .size-guide-drawer__backdrop
    boundCloseClick,    \* #boundCloseClick: {} is null, {h} a closure
    boundBackdropClick, \* #boundBackdropClick
    closeListeners,     \* click listeners on the close button
    backdropListeners,  \* click listeners on the backdrop
    focusTrap,      \* element focus is trapped in ("none" when released)
    frames,         \* requestAnimationFrame callbacks, in registration order
    anims,          \* bag of onAnimationEnd continuations not yet run
    cycle,          \* history: the API calls so far are (), (open), (open, close) or other
    last,           \* history: the step that produced this state
    \* ---- ProductMediaGalleryMainThumbnails ----
    gallery,        \* the controller's fields and the DOM state it reads and writes
    glast,          \* history: the gallery step that produced this state
    \* ---- a second SizeGuideDrawer on the same page ----
    second          \* its state, as a record of the first one's fields

dvars == <<shape, openAttr, ariaExpanded, menuOpen, wrapperMenuOpen, pointerEvents,
           bodyOverflow, panelParent, backdropParent, boundCloseClick,
           boundBackdropClick, closeListeners, backdropListeners, focusTrap,
           frames, anims>>

vars == <<dvars, cycle, last, gallery, glast, second>>

(***************************************************************************)
(* SizeGuideDrawer: the DOM the component lives in.                        *)
(*   "refs"  is this.refs.details;                                         *)
(*   "other" is a second <details> an event target can lie in (what        *)
(*           event.target.closest('details') then returns); it holds no    *)
(*           drawer panel of its own and is neither inside nor around      *)
(*           "refs".                                                       *)
(***************************************************************************)
Details == {"refs", "other"}

\* where an event's target lies: no event / not an Element, inside
\* refs.details, inside the other details, or under no details at all
Targets == {"none", "inRefs", "inOther", "noDetails"}

Keys == {"Escape", "Enter"}

HandlerIds == 1..MaxHandlers

\* the close button is looked up inside the panel, so it exists only with it
Shapes ==
    { m \in [ summary : [Details -> BOOLEAN],   \* details.querySelector('summary')
              drawer : BOOLEAN,                 \* .size-guide-drawer exists
              backdrop : BOOLEAN,               \* .size-guide-drawer__backdrop exists
              closeButton : BOOLEAN ]           \* .size-guide-drawer__close-button exists
        : m.closeButton => m.drawer }

NoCall == [op |-> "init", via |-> "none", key |-> "none", target |-> "none",
           wasOpen |-> FALSE, threw |-> FALSE, kind |-> "none"]

DrawerInit ==
    /\ shape \in Shapes
    /\ openAttr = [d \in Details |-> FALSE]
    /\ ariaExpanded = [d \in Details |-> "false"]
    /\ menuOpen = [d \in Details |-> FALSE]
    /\ wrapperMenuOpen = FALSE
    /\ pointerEvents = "none"
    /\ bodyOverflow = ""
    /\ panelParent = "refs"
    /\ backdropParent = "refs"
    /\ boundCloseClick = {}
    /\ boundBackdropClick = {}
    /\ closeListeners = {}
    /\ backdropListeners = {}
    /\ focusTrap = "none"
    /\ frames = <<>>
    /\ anims = EmptyBag
    /\ cycle = "fresh"
    /\ last = NoCall

(***************************************************************************)
(* The drawer's state as one record, so that a handler is a function from  *)
(* the state before the call to the state after it and handlers compose    *)
(* the way the methods call each other.                                    *)
(***************************************************************************)
S == [ shape |-> shape, openAttr |-> openAttr, ariaExpanded |-> ariaExpanded,
       menuOpen |-> menuOpen, wrapperMenuOpen |-> wrapperMenuOpen,
       pointerEvents |-> pointerEvents, bodyOverflow |-> bodyOverflow,
       panelParent |-> panelParent, backdropParent |-> backdropParent,
       boundCloseClick |-> boundCloseClick, boundBackdropClick |-> boundBackdropClick,
       closeListeners |-> closeListeners, backdropListeners |-> backdropListeners,
       focusTrap |-> focusTrap, frames |-> frames, anims |-> anims ]

\* a component just connected: nothing open, its wrapper inert (lines 14-48)
connected(shape_) ==
    [ shape |-> shape_, openAttr |-> [d \in Details |-> FALSE],
      ariaExpanded |-> [d \in Details |-> "false"],
      menuOpen |-> [d \in Details |-> FALSE], wrapperMenuOpen |-> FALSE,
      pointerEvents |-> "none", bodyOverflow |-> "",
      panelParent |-> "refs", backdropParent |-> "refs",
      boundCloseClick |-> {}, boundBackdropClick |-> {},
      closeListeners |-> {}, backdropListeners |-> {},
      focusTrap |-> "none", frames |-> <<>>, anims |-> EmptyBag ]

Becomes(s) ==
    /\ shape' = s.shape
    /\ openAttr' = s.openAttr
    /\ ariaExpanded' = s.ariaExpanded
    /\ menuOpen' = s.menuOpen
    /\ wrapperMenuOpen' = s.wrapperMenuOpen
    /\ pointerEvents' = s.pointerEvents
    /\ bodyOverflow' = s.bodyOverflow
    /\ panelParent' = s.panelParent
    /\ backdropParent' = s.backdropParent
    /\ boundCloseClick' = s.boundCloseClick
    /\ boundBackdropClick' = s.boundBackdropClick
    /\ closeListeners' = s.closeListeners
    /\ backdropListeners' = s.backdropListeners
    /\ focusTrap' = s.focusTrap
    /\ frames' = s.frames
    /\ anims' = s.anims

\* the smallest closure identity not held by a listener list or a handle
NewHandler(used) ==
    CHOOSE h \in HandlerIds \ used : \A k \in HandlerIds \ used : h <= k

\* onAnimationEnd(element, callback): the callback is kept until the
\* element's running animations have finished
onAnimationEnd(s, callback) == [s EXCEPT !.anims = @ (+) SetToBag({callback})]

\* requestAnimationFrame(callback)
requestAnimationFrame(s, callback) == [s EXCEPT !.frames = Append(@, callback)]

\* trapFocus(container) / removeTrapFocus() of @theme/focus
trapFocus(s, container) == [s EXCEPT !.focusTrap = container]
removeTrapFocus(s) == [s EXCEPT !.focusTrap = "none"]

\* variant: isOpen derived from the 'menu-open' class
isOpenByClass(s) == s.menuOpen["refs"]

\* get isOpen(): read from the live attribute of refs.details
isOpen(s) == s.openAttr["refs"]

\* variant: the event target is ignored
getDetailsElementDefault(target) == "refs"

\* #getDetailsElement(event)
getDetailsElement(target) ==
    IF target \notin {"inRefs", "inOther", "noDetails"} THEN "refs"   \* not an Element
    ELSE IF target = "inOther" THEN "other"                          \* closest('details')
    ELSE "refs"                                                      \* ?? this.refs.details

\* the click closures open() creates and attaches (lines 112-120)
attachHandlers(s) ==
    LET hb == NewHandler(s.backdropListeners \cup s.boundBackdropClick)
        s1 == [s EXCEPT !.boundBackdropClick = {hb},
                        !.backdropListeners = @ \cup {hb}]
        hc == NewHandler(s.closeListeners \cup s.boundCloseClick)
    IN  IF s.shape.closeButton
        THEN [s1 EXCEPT !.boundCloseClick = {hc}, !.closeListeners = @ \cup {hc}]
        ELSE s1

\* details.querySelector('.size-guide-drawer') and ('...__backdrop')
drawerIn(s, parent) == s.shape.drawer /\ s.panelParent = parent
backdropIn(s, parent) == s.shape.backdrop /\ s.backdropParent = parent

\* variant: the scroll lock is released only by the close continuation
unlockBodyScrollDeferred(s) == s

\* document.body.style.overflow = 'hidden' (open) and = '' (#close)
lockBodyScroll(s) == [s EXCEPT !.bodyOverflow = "hidden"]
unlockBodyScroll(s) == [s EXCEPT !.bodyOverflow = ""]

\* open(event) raises a TypeError at appendChild(backdrop) when the panel is
\* found and the backdrop is not
openThrows(s, target) ==
    LET details == getDetailsElement(target)
    IN  /\ s.shape.summary[details]
        /\ drawerIn(s, details)
        /\ ~backdropIn(s, details)

\* variant: the summary lookup always finds an element
querySummaryAssumed(s, details) == TRUE

\* details.querySelector('summary') (line 91), as a found / not found test
querySummary(s, details) == s.shape.summary[details]

\* open(event)
open(s, target) ==
    LET details == getDetailsElement(target)
        drawer == drawerIn(s, details)
        backdrop == backdropIn(s, details)
        s1 == lockBodyScroll([s EXCEPT !.ariaExpanded[details] = "true",
                                       !.openAttr[details] = TRUE])
        s2 == [s1 EXCEPT !.pointerEvents = "auto"]
        s3 == attachHandlers([s2 EXCEPT !.backdropParent = "wrapper",
                                        !.panelParent = "wrapper"])
        frame == [details |-> details]
    IN  IF ~querySummary(s, details) THEN s
        ELSE IF ~drawer THEN requestAnimationFrame(s1, frame)
        ELSE IF ~backdrop THEN s2
        ELSE requestAnimationFrame(s3, frame)

\* the requestAnimationFrame callback of open() (lines 123-129); the element
\* it waits on (drawer || details) decides only when the continuation runs,
\* which the model leaves open, so the closure keeps `details` alone
openFrame(s, f) ==
    onAnimationEnd([s EXCEPT !.menuOpen[f.details] = TRUE, !.wrapperMenuOpen = TRUE],
                   [kind |-> "trap", details |-> f.details,
                    drawer |-> FALSE, backdrop |-> FALSE])

\* variant: reset() leaves the 'open' attribute in place
resetKeepsOpen(s, element) ==
    [s EXCEPT !.menuOpen[element] = FALSE,
              !.ariaExpanded[element] =
                  IF s.shape.summary[element] THEN "false" ELSE @]

\* reset(element)
reset(s, element) ==
    [s EXCEPT !.menuOpen[element] = FALSE,
              !.openAttr[element] = FALSE,
              !.ariaExpanded[element] =
                  IF s.shape.summary[element] THEN "false" ELSE @]

\* #close(details)
close_(s, details) ==
    LET s1 == unlockBodyScroll(
                  [s EXCEPT !.ariaExpanded[details] =
                                IF s.shape.summary[details] THEN "false" ELSE @,
                            !.menuOpen[details] = FALSE,
                            !.wrapperMenuOpen = FALSE])
    IN  onAnimationEnd(s1, [kind |-> "close", details |-> details,
                            drawer |-> drawerIn(s, "wrapper"),
                            backdrop |-> backdropIn(s, "wrapper")])

\* variant: the handle is cleared before the listener is removed, so
\* removeEventListener is never reached
removeEventListenerSkipped(listeners, bound) == listeners

\* element.removeEventListener('click', bound), guarded by `&& bound`
removeEventListener(listeners, bound) == listeners \ bound

\* the onAnimationEnd continuation of #close (lines 162-182)
closeDone(s, c) ==
    LET s1 == IF c.drawer
              THEN [s EXCEPT !.closeListeners =
                                 IF s.shape.closeButton
                                 THEN removeEventListener(@, s.boundCloseClick)
                                 ELSE @,
                             !.boundCloseClick = {},
                             !.panelParent = c.details]
              ELSE s
        s2 == IF c.backdrop
              THEN [s1 EXCEPT !.backdropListeners =
                                  removeEventListener(@, s1.boundBackdropClick),
                              !.boundBackdropClick = {},
                              !.backdropParent = c.details]
              ELSE s1
        s3 == [s2 EXCEPT !.pointerEvents = "none"]
    IN  removeTrapFocus(reset(s3, c.details))

\* close()
close(s) == close_(s, "refs")

\* toggle()
toggle(s) == IF isOpen(s) THEN close(s) ELSE open(s, "none")

\* #onKeyUp(event)
onKeyUp(s, key, target) ==
    IF key # "Escape" THEN s ELSE close_(s, getDetailsElement(target))

\* a click event on an element: every listener in its list runs, and each
\* is a closure () => this.close()
RECURSIVE dispatchClick(_, _)
dispatchClick(s, n) == IF n = 0 THEN s ELSE dispatchClick(close(s), n - 1)

(***************************************************************************)
(* Actions of the drawer.                                                  *)
(***************************************************************************)
Pending == Len(frames) + BagCardinality(anims)

\* a call may be made while the model has room for the continuation it adds
\* and an identity for each closure it creates
Room ==
    /\ Pending < MaxPending
    /\ HandlerIds \ (closeListeners \cup boundCloseClick) # {}
    /\ HandlerIds \ (backdropListeners \cup boundBackdropClick) # {}

Call(op, via, key, target, threw, kind) ==
    [op |-> op, via |-> via, key |-> key, target |-> target,
     wasOpen |-> openAttr["refs"], threw |-> threw, kind |-> kind]

Open(target) ==
    /\ Room
    /\ Becomes(open(S, target))
    /\ cycle' = IF cycle = "fresh" /\ target = "none" THEN "opened" ELSE "other"
    /\ last' = Call("open", "open", "none", target, openThrows(S, target), "none")
    /\ UNCHANGED <<gallery, glast, second>>

Close ==
    /\ Room
    /\ Becomes(close(S))
    /\ cycle' = IF cycle = "opened" THEN "closed" ELSE "other"
    /\ last' = Call("close", "close", "none", "none", FALSE, "none")
    /\ UNCHANGED <<gallery, glast, second>>

Toggle ==
    /\ Room
    /\ Becomes(toggle(S))
    /\ cycle' = "other"
    /\ last' = Call(IF isOpen(S) THEN "close" ELSE "open", "toggle", "none",
                    "none", ~isOpen(S) /\ openThrows(S, "none"), "none")
    /\ UNCHANGED <<gallery, glast, second>>

KeyUp(key, target) ==
    /\ Room
    /\ Becomes(onKeyUp(S, key, target))
    /\ cycle' = "other"
    /\ last' = Call("keyup", "keyup", key, target, FALSE, "none")
    /\ UNCHANGED <<gallery, glast, second>>

ClickClose ==
    /\ closeListeners # {}
    /\ Pending + Cardinality(closeListeners) <= MaxPending
    /\ Becomes(dispatchClick(S, Cardinality(closeListeners)))
    /\ cycle' = "other"
    /\ last' = Call("click", "closeButton", "none", "none", FALSE, "none")
    /\ UNCHANGED <<gallery, glast, second>>

ClickBackdrop ==
    /\ backdropListeners # {}
    /\ Pending + Cardinality(backdropListeners) <= MaxPending
    /\ Becomes(dispatchClick(S, Cardinality(backdropListeners)))
    /\ cycle' = "other"
    /\ last' = Call("click", "backdrop", "none", "none", FALSE, "none")
    /\ UNCHANGED <<gallery, glast, second>>

\* the browser runs the oldest requestAnimationFrame callback
Frame ==
    /\ frames # <<>>
    /\ Becomes(openFrame([S EXCEPT !.frames = Tail(@)], Head(frames)))
    /\ cycle' = cycle
    /\ last' = Call("frame", "frame", "none", "none", FALSE, "none")
    /\ UNCHANGED <<gallery, glast, second>>

\* the animations a continuation waits for have finished: it runs
AnimationEnd(c) ==
    /\ BagIn(c, anims)
    /\ LET s == [S EXCEPT !.anims = @ (-) SetToBag({c})]
       IN  Becomes(IF c.kind = "trap" THEN trapFocus(s, "wrapper") ELSE closeDone(s, c))
    /\ cycle' = cycle
    /\ last' = Call("animend", "animend", "none", "none", FALSE, c.kind)
    /\ UNCHANGED <<gallery, glast, second>>

DrawerNext ==
    \/ \E target \in Targets : Open(target)
    \/ Close
    \/ Toggle
    \/ \E key \in Keys, target \in Targets : KeyUp(key, target)
    \/ ClickClose
    \/ ClickBackdrop
    \/ Frame
    \/ \E c \in BagToSet(anims) : AnimationEnd(c)

(***************************************************************************)
(* ProductMediaGalleryMainThumbnails.                                      *)
(*                                                                         *)
(* Layout the browser reports: the thumbnails lie in one row inside the    *)
(* scroll container (.thumbnail-carousel-wrapper), ThumbnailSize wide and  *)
(* ThumbnailGap apart; the container's left edge is at ContainerLeft in    *)
(* viewport coordinates.                                                   *)
(***************************************************************************)
Min(a, b) == IF a < b THEN a ELSE b
Max(a, b) == IF a > b THEN a ELSE b

\* widths the scroll container can have (divisible by 5, so that
\* 0.8 * width is whole): narrower than one thumbnail, wider than two
ClientWidths == {75, 250}

ContainerLeft == 2 * VisibleMargin

\* which zoom control the main display holds: none, one without an on:click
\* attribute, one whose on:click has no "/open/<n>" part, one with "/open/0"
ZoomKinds == {"none", "noAttr", "noOpen", "open"}

FullShape(n) ==
    [ n |-> n,                      \* number of .thumbnail-item elements
      prevBtn |-> TRUE,             \* .thumbnail-nav-btn--prev
      nextBtn |-> TRUE,             \* .thumbnail-nav-btn--next
      thumbnailWrapper |-> TRUE,    \* .thumbnail-carousel-wrapper
      mainImageContainer |-> TRUE,  \* .main-image-container
      hidden |-> 0..(n - 1),        \* indices with a [data-media-index] node
      mediaContent |-> TRUE,        \* main display has a content wrapper
      newMediaContent |-> TRUE,     \* hidden nodes have a content wrapper
      zoom |-> "open" ]

\* the markup varies in its navigation part, in its media part or in its
\* zoom control
GalleryShapes ==
    UNION { { [FullShape(n) EXCEPT !.prevBtn = p, !.nextBtn = x, !.thumbnailWrapper = w]
                : p \in BOOLEAN, x \in BOOLEAN, w \in BOOLEAN }
            \cup
            { [FullShape(n) EXCEPT !.hidden = h, !.mediaContent = c,
                                   !.newMediaContent = k]
                : h \in {0..(n - 1), (0..(n - 1)) \ {1}},
                  c \in BOOLEAN, k \in BOOLEAN }
            \cup
            { [FullShape(n) EXCEPT !.zoom = z] : z \in ZoomKinds }
            \cup
            { [FullShape(n) EXCEPT !.mainImageContainer = FALSE, !.mediaContent = FALSE,
                                   !.zoom = "none"] }
          : n \in 0..MaxThumbs }

\* thumbnailWrapper.scrollWidth, .clientWidth and the scroll range
contentWidth(g) ==
    IF g.shape.n = 0 THEN 0
    ELSE g.shape.n * ThumbnailSize + (g.shape.n - 1) * ThumbnailGap
scrollWidth(g) == Max(contentWidth(g), g.clientWidth)
maxScrollOf(g) == scrollWidth(g) - g.clientWidth

\* getBoundingClientRect() of the container and of thumbnail i
containerRect(g) == [left |-> ContainerLeft, right |-> ContainerLeft + g.clientWidth]
thumbnailRect(g, i) ==
    LET l == ContainerLeft + i * (ThumbnailSize + ThumbnailGap) - g.scrollLeft
    IN  [left |-> l, right |-> l + ThumbnailSize]

\* a handler that raised stops: what it did before stays
raise(g) == [g EXCEPT !.threw = TRUE]

\* thumbnailWrapper.scrollBy({left, behavior: 'smooth'}): the browser scrolls
\* towards the clamped destination afterwards
scrollBy(g, left) ==
    [g EXCEPT !.scrolls = Append(@, left),
              !.scrollTarget = {Max(0, Min(maxScrollOf(g), g.scrollLeft + left))}]

\* variant: the comparison leaves out the 1px tolerance
nextDisabledExact(scrollLeft, maxScroll) == scrollLeft >= maxScroll

\* lines 147-148
prevDisabledAt(scrollLeft) == scrollLeft <= 0
nextDisabledAt(scrollLeft, maxScroll) == scrollLeft >= maxScroll - 1

\* updateNavigationState()
updateNavigationState(g) ==
    IF ~g.shape.prevBtn \/ ~g.shape.nextBtn THEN g
    ELSE IF ~g.shape.thumbnailWrapper THEN raise(g)
    ELSE [g EXCEPT !.prevDisabled = prevDisabledAt(g.scrollLeft),
                   !.nextDisabled = nextDisabledAt(g.scrollLeft, maxScrollOf(g))]

\* updateThumbnailsPerView()
updateThumbnailsPerView(g) ==
    IF ~g.shape.thumbnailWrapper THEN raise(g)
    ELSE [g EXCEPT !.thumbnailsPerView = g.clientWidth \div (ThumbnailSize + ThumbnailGap)]

\* variant: the second test is not an else-branch
scrollsForBoth(thumbnailRect_, containerRect_) ==
    (IF thumbnailRect_.left < containerRect_.left
     THEN <<thumbnailRect_.left - containerRect_.left - VisibleMargin>> ELSE <<>>)
    \o
    (IF thumbnailRect_.right > containerRect_.right
     THEN <<thumbnailRect_.right - containerRect_.right + VisibleMargin>> ELSE <<>>)

\* the scrollBy calls of ensureThumbnailVisible (lines 126-138)
scrollsFor(thumbnailRect_, containerRect_) ==
    IF thumbnailRect_.left < containerRect_.left
    THEN <<thumbnailRect_.left - containerRect_.left - VisibleMargin>>
    ELSE IF thumbnailRect_.right > containerRect_.right
    THEN <<thumbnailRect_.right - containerRect_.right + VisibleMargin>>
    ELSE <<>>

RECURSIVE scrollAll(_, _)
scrollAll(g, lefts) ==
    IF lefts = <<>> THEN g ELSE scrollAll(scrollBy(g, Head(lefts)), Tail(lefts))

\* ensureThumbnailVisible(index)
ensureThumbnailVisible(g, index) ==
    IF index \notin 0..(g.shape.n - 1) THEN g
    ELSE IF ~g.shape.thumbnailWrapper THEN raise(g)
    ELSE scrollAll(g, scrollsFor(thumbnailRect(g, index), containerRect(g)))

\* variant: the pattern matches nothing
replaceOpenUnmatched(onClick, index) == onClick

\* onClickAttr.replace(/\/open\/\d+/, `/open/${index}`)
replaceOpen(onClick, index) ==
    IF onClick.open = {} THEN onClick ELSE [onClick EXCEPT !.open = {index}]

\* variant: the early return is missing
isCurrentNever(g, index) == FALSE

\* index === this.currentIndex
isCurrent(g, index) == index = g.currentIndex

\* variant: the old marker is not cleared
clearActiveSkipped(active, index) == active

\* thumbnailItems[index]?.classList.remove('active') / .add('active')
clearActive(active, index) == active \ {index}
setActive(active, index) == active \cup {index}

\* hiddenMedia.querySelector(`[data-media-index="${index}"]`)
mediaNode(g, index) == index

\* variant: the content wrappers are taken to exist
contentWrappersAssumed(g) == TRUE

\* mainImageContainer.querySelector('.product-media') and
\* newMediaElement.querySelector('.product-media') both found (lines 83-86)
contentWrappers(g) == g.shape.mediaContent /\ g.shape.newMediaContent

\* switchMainImage(index)
switchMainImage(g, index) ==
    LET g1 == [g EXCEPT !.active = setActive(clearActive(@, g.currentIndex), index)]
        node == mediaNode(g, index)
        newMediaElement == node \in g.shape.hidden
        existingZoomButton == g.shape.zoom # "none"
        g2 == IF contentWrappers(g)
              THEN [g1 EXCEPT !.mainMedia = {node}] ELSE g1
        g3 == IF existingZoomButton
              THEN [g2 EXCEPT !.zoomOnClick =
                                  IF @.present THEN replaceOpen(@, index) ELSE @,
                              !.zoomData = {index}]
              ELSE g2
        g4 == IF newMediaElement /\ g.shape.mainImageContainer THEN g3 ELSE g1
    IN  IF isCurrent(g, index) THEN g
        ELSE ensureThumbnailVisible([g4 EXCEPT !.currentIndex = index], index)

\* scrollThumbnails(direction)
scrollThumbnails(g, direction) ==
    IF ~g.shape.thumbnailWrapper THEN raise(g)
    ELSE LET scrollAmount == (g.clientWidth * 8) \div 10
         IN  IF direction = "next" THEN scrollBy(g, scrollAmount)
             ELSE scrollBy(g, 0 - scrollAmount)

\* the resize listener of init()
onResize(g) ==
    LET g1 == updateThumbnailsPerView(g)
    IN  IF g1.threw THEN g1 ELSE updateNavigationState(g1)

\* constructor(container) and init(), on a page whose markup shows the first
\* media item and marks the first thumbnail active
construct(shape_, width, prevDisabled_, nextDisabled_) ==
    LET g0 == [ shape |-> shape_,
                currentIndex |-> 0,
                thumbnailsPerView |-> ThumbnailsPerViewDefault,
                active |-> IF shape_.n > 0 THEN {0} ELSE {},
                mainMedia |-> IF shape_.mainImageContainer /\ shape_.n > 0 THEN {0} ELSE {},
                zoomOnClick |-> [present |-> shape_.zoom \in {"noOpen", "open"},
                                 open |-> IF shape_.zoom = "open" THEN {0} ELSE {}],
                zoomData |-> {},
                scrollLeft |-> 0,
                scrollTarget |-> {},
                clientWidth |-> width,
                prevDisabled |-> prevDisabled_ /\ shape_.prevBtn,
                nextDisabled |-> nextDisabled_ /\ shape_.nextBtn,
                resizeListener |-> FALSE,
                scrolls |-> <<>>,
                threw |-> FALSE ]
        g1 == updateNavigationState(g0)
    IN  IF g1.threw THEN g1 ELSE [g1 EXCEPT !.resizeListener = TRUE]

NoGallery == construct([FullShape(0) EXCEPT !.prevBtn = FALSE, !.nextBtn = FALSE,
                          !.thumbnailWrapper = FALSE, !.mainImageContainer = FALSE,
                          !.mediaContent = FALSE, !.newMediaContent = FALSE,
                          !.zoom = "none"], 75, FALSE, FALSE)

GCall(op, index) ==
    [op |-> op, index |-> index, from |-> gallery.currentIndex]

GalleryInit ==
    /\ \E shape_ \in GalleryShapes, width \in ClientWidths, p \in BOOLEAN, x \in BOOLEAN :
          /\ shape_.prevBtn \/ ~p
          /\ shape_.nextBtn \/ ~x
          /\ gallery = construct(shape_, width, p, x)
    /\ glast = [op |-> "construct", index |-> 0, from |-> 0]

\* a handler starts with no scroll issued and nothing raised
Fresh(g) == [g EXCEPT !.scrolls = <<>>, !.threw = FALSE]

\* variant: the listeners count the thumbnails from 1
listenerIndexFromOne(index) == index + 1

\* the index the click listener of thumbnail `index` passes on (lines 58-62)
listenerIndex(index) == index

\* a click on the button of thumbnail `index`
ClickThumbnail(index) ==
    /\ index \in 0..(gallery.shape.n - 1)
    /\ gallery' = switchMainImage(Fresh(gallery), listenerIndex(index))
    /\ glast' = GCall("switchMainImage", listenerIndex(index))
    /\ UNCHANGED <<dvars, cycle, last, second>>

\* a click on the prev / next button (a disabled button gets no click)
ClickNav(direction) ==
    /\ IF direction = "prev" THEN gallery.shape.prevBtn /\ ~gallery.prevDisabled
                             ELSE gallery.shape.nextBtn /\ ~gallery.nextDisabled
    /\ gallery' = scrollThumbnails(Fresh(gallery), direction)
    /\ glast' = GCall("scrollThumbnails", 0)
    /\ UNCHANGED <<dvars, cycle, last, second>>

\* offsets the user can scroll the strip to
ScrollStops(g) ==
    LET m == maxScrollOf(g)
    IN  { x \in {0, 1, m - 2, m - 1, m} \cup { k * ThumbnailSize : k \in 0..g.shape.n } :
            0 <= x /\ x <= m }

\* the strip scrolled (to the destination of a scrollBy, or by the user) and
\* the scroll listener ran
ScrollEvent(to) ==
    /\ gallery.shape.thumbnailWrapper
    /\ to # gallery.scrollLeft
    /\ gallery' = updateNavigationState(
                      [Fresh(gallery) EXCEPT !.scrollLeft = to, !.scrollTarget = {}])
    /\ glast' = GCall("scroll", 0)
    /\ UNCHANGED <<dvars, cycle, last, second>>

\* the window was resized: the container gets another width, the browser
\* keeps the offset in range, the resize listener runs if init() added it
Resize(width) ==
    /\ width # gallery.clientWidth
    /\ LET g1 == [Fresh(gallery) EXCEPT !.clientWidth = width]
           g2 == [g1 EXCEPT !.scrollLeft = Min(@, maxScrollOf(g1)),
                            !.scrollTarget = {}]
       IN  gallery' = IF gallery.resizeListener THEN onResize(g2) ELSE g2
    /\ glast' = GCall("resize", 0)
    /\ UNCHANGED <<dvars, cycle, last, second>>

GalleryNext ==
    \/ \E index \in 0..(MaxThumbs - 1) : ClickThumbnail(index)
    \/ \E direction \in {"prev", "next"} : ClickNav(direction)
    \/ \E to \in gallery.scrollTarget \cup ScrollStops(gallery) : ScrollEvent(to)
    \/ \E width \in ClientWidths : Resize(width)

\* a page without a gallery / without a drawer
GalleryIdle == gallery = NoGallery /\ glast = [op |-> "none", index |-> 0, from |-> 0]
DrawerIdle ==
    /\ DrawerInit
    /\ shape = [summary |-> [d \in Details |-> FALSE], drawer |-> FALSE,
                backdrop |-> FALSE, closeButton |-> FALSE]

SecondIdle ==
    second = connected([summary |-> [d \in Details |-> FALSE], drawer |-> FALSE,
                        backdrop |-> FALSE, closeButton |-> FALSE])

Init == DrawerInit /\ GalleryIdle /\ SecondIdle

Next == DrawerNext

Spec == Init /\ [][Next]_vars

InitGallery == GalleryInit /\ DrawerIdle /\ SecondIdle

\* the drawer with its complete markup (summary, panel, backdrop), driven
\* through its methods and the Escape key alone
InitCalls == Init /\ shape.summary["refs"] /\ shape.drawer /\ shape.backdrop

CallsNext ==
    \/ Open("none")
    \/ Close
    \/ Toggle
    \/ \E key \in Keys, target \in Targets : KeyUp(key, target)
    \/ Frame
    \/ \E c \in BagToSet(anims) : AnimationEnd(c)

SpecCalls == InitCalls /\ [][CallsNext]_vars

\* every registered frame callback and animation-end continuation
\* eventually runs; calls are under no obligation to happen
Continuations ==
    [kind : {"trap", "close"}, details : Details, drawer : BOOLEAN, backdrop : BOOLEAN]

Fairness ==
    /\ WF_vars(Frame)
    /\ \A c \in Continuations : WF_vars(AnimationEnd(c))

SpecFair == InitCalls /\ [][CallsNext]_vars /\ Fairness

(***************************************************************************)
(* Two drawers on one page.  Each instance has its own details, wrapper,   *)
(* handles and continuations; document.body is the page's.                 *)
(***************************************************************************)
\* the second instance's state with the body it shares
SecondS == [second EXCEPT !.bodyOverflow = bodyOverflow]

SecondBecomes(s) ==
    /\ second' = [s EXCEPT !.bodyOverflow = ""]
    /\ bodyOverflow' = s.bodyOverflow
    /\ UNCHANGED <<shape, openAttr, ariaExpanded, menuOpen, wrapperMenuOpen,
                   pointerEvents, panelParent, backdropParent, boundCloseClick,
                   boundBackdropClick, closeListeners, backdropListeners,
                   focusTrap, frames, anims>>

SecondPending == Len(second.frames) + BagCardinality(second.anims)

SecondRoom ==
    /\ SecondPending < MaxPending
    /\ HandlerIds \ (second.closeListeners \cup second.boundCloseClick) # {}
    /\ HandlerIds \ (second.backdropListeners \cup second.boundBackdropClick) # {}

SecondCall(op, kind) ==
    [Call(op, "second", "none", "none", FALSE, kind)
        EXCEPT !.wasOpen = second.openAttr["refs"]]

SecondOpen ==
    /\ SecondRoom
    /\ SecondBecomes(open(SecondS, "none"))
    /\ cycle' = "other"
    /\ last' = SecondCall("open", "none")
    /\ UNCHANGED <<gallery, glast>>

SecondClose ==
    /\ SecondRoom
    /\ SecondBecomes(close(SecondS))
    /\ cycle' = "other"
    /\ last' = SecondCall("close", "none")
    /\ UNCHANGED <<gallery, glast>>

SecondFrame ==
    /\ second.frames # <<>>
    /\ SecondBecomes(openFrame([SecondS EXCEPT !.frames = Tail(@)], Head(second.frames)))
    /\ cycle' = cycle
    /\ last' = SecondCall("frame", "none")
    /\ UNCHANGED <<gallery, glast>>

SecondAnimationEnd(c) ==
    /\ BagIn(c, second.anims)
    /\ LET s == [SecondS EXCEPT !.anims = @ (-) SetToBag({c})]
       IN  SecondBecomes(IF c.kind = "trap" THEN trapFocus(s, "wrapper")
                                            ELSE closeDone(s, c))
    /\ cycle' = cycle
    /\ last' = SecondCall("animend", c.kind)
    /\ UNCHANGED <<gallery, glast>>

CompleteShape ==
    [summary |-> [d \in Details |-> d = "refs"], drawer |-> TRUE,
     backdrop |-> TRUE, closeButton |-> TRUE]

InitTwo ==
    /\ DrawerInit
    /\ shape = CompleteShape
    /\ GalleryIdle
    /\ second = connected(CompleteShape)

TwoNext ==
    \/ Open("none")
    \/ Close
    \/ Frame
    \/ \E c \in BagToSet(anims) : AnimationEnd(c)
    \/ SecondOpen
    \/ SecondClose
    \/ SecondFrame
    \/ \E c \in BagToSet(second.anims) : SecondAnimationEnd(c)

SpecTwo == InitTwo /\ [][TwoNext]_vars

SpecGallery == InitGallery /\ [][GalleryNext]_vars

(***************************************************************************)
(* SizeGuideDrawer: properties.                                            *)
(***************************************************************************)
Quiet == frames = <<>> /\ anims = EmptyBag

\* C1: after open() then close() from the closed state, once every frame
\* and animation-end continuation has run (in any order), the panel and the
\* backdrop are children of refs.details again, body overflow is '', the
\* 'open' attribute is gone and aria-expanded is 'false'.
C1_FullCycleRestores ==
    (cycle = "closed" /\ Quiet) =>
        /\ panelParent = "refs"
        /\ backdropParent = "refs"
        /\ bodyOverflow = ""
        /\ ~openAttr["refs"]
        /\ ariaExpanded["refs"] = "false"

\* a full cycle of a complete drawer has finished, the open-side
\* continuations last (focus was trapped after the close completed)
C1_Witness ==
    /\ cycle = "closed" /\ Quiet
    /\ shape.summary["refs"] /\ shape.drawer /\ shape.backdrop /\ shape.closeButton
    /\ focusTrap = "wrapper"

\* C2: body overflow is 'hidden' as soon as open() returns on a details with
\* a summary, and '' as soon as close() returns, whatever is still pending.
C2_ScrollLockSynchronous ==
    /\ (last.op = "open" /\ shape.summary[IF last.target = "inOther" THEN "other" ELSE "refs"])
            => bodyOverflow = "hidden"
    /\ last.op = "close" => bodyOverflow = ""

\* close() has just returned while the frame callback of the preceding
\* open() is still pending
C2_Witness ==
    /\ last.op = "close" /\ last.wasOpen
    /\ frames # <<>> /\ anims # EmptyBag
    /\ bodyOverflow = ""

\* C3: the close button and the backdrop each carry at most one click
\* handler of the controller, after any calls and continuations; a second
\* open() in a row attaches nothing.
C3_AtMostOneHandler ==
    /\ Cardinality(closeListeners) <= 1
    /\ Cardinality(backdropListeners) <= 1

\* open() has returned twice in a row on a complete drawer: two frame
\* callbacks wait, one handler each is attached
C3_Witness ==
    /\ last.op = "open" /\ last.wasOpen
    /\ Len(frames) = 2 /\ anims = EmptyBag
    /\ Cardinality(closeListeners) = 1
    /\ Cardinality(backdropListeners) = 1

\* the closest ancestor details of an event target, else refs.details
Nearest(target) == IF target = "inOther" THEN "other" ELSE "refs"

\* C9: an Escape keyup starts the close sequence on the closest ancestor
\* details of the event target (refs.details when there is none); a keyup of
\* any other key changes nothing of the drawer.
C9_EscapeCloses ==
    [][ last'.op = "keyup" =>
          IF last'.key = "Escape"
          THEN LET d == Nearest(last'.target)
               IN  /\ bodyOverflow' = ""
                   /\ ~menuOpen'[d] /\ ~wrapperMenuOpen'
                   /\ shape.summary[d] => ariaExpanded'[d] = "false"
                   /\ anims' = anims (+) SetToBag({[kind |-> "close", details |-> d,
                                   drawer |-> (shape.drawer /\ panelParent = "wrapper"),
                                   backdrop |-> (shape.backdrop /\ backdropParent = "wrapper")]})
                   /\ UNCHANGED <<openAttr, panelParent, backdropParent, pointerEvents,
                                  closeListeners, backdropListeners, frames, focusTrap>>
          ELSE UNCHANGED dvars ]_vars

\* Escape was released inside the other details while the drawer was open
C9_Witness ==
    /\ last.op = "keyup" /\ last.key = "Escape" /\ last.target = "inOther"
    /\ last.wasOpen /\ panelParent = "wrapper"

\* C10: toggle() performs exactly close() when refs.details carries 'open'
\* at the call and exactly open() otherwise; the attribute, once set by
\* open(), stays until a close continuation resets the details, so it is
\* still set during an in-flight close.
C10_ToggleDispatch ==
    /\ [][ last'.via = "toggle" =>
              S' = IF openAttr["refs"] THEN close(S) ELSE open(S, "none") ]_vars
    /\ [][ (openAttr["refs"] /\ ~openAttr'["refs"]) =>
              (last'.op = "animend" /\ last'.kind = "close") ]_vars
    /\ [](( last.op = "open" /\ last.target # "inOther" /\ shape.summary["refs"])
              => openAttr["refs"])

\* toggle() was called while a close was in flight and closed again
C10_Witness ==
    /\ last.via = "toggle" /\ last.op = "close" /\ last.wasOpen
    /\ BagCardinality(anims) = 2
    /\ openAttr["refs"]

(***************************************************************************)
(* ProductMediaGalleryMainThumbnails: properties.                          *)
(***************************************************************************)
Switched == glast.op = "switchMainImage" /\ glast.index # glast.from

\* the main display can take the media of index i: the container, the
\* hidden node tagged i and a content wrapper in each of them exist
Replaceable(i) ==
    /\ gallery.shape.mainImageContainer
    /\ i \in gallery.shape.hidden
    /\ gallery.shape.mediaContent
    /\ gallery.shape.newMediaContent

C5_ActivateCurrentNoOp ==
    [][ (glast'.op = "switchMainImage" /\ glast'.index = gallery.currentIndex)
          => gallery' = Fresh(gallery) ]_vars

\* the current thumbnail, not the first one, was clicked again while it was
\* scrolled out of view
C5_Witness ==
    /\ glast.op = "switchMainImage" /\ glast.index = glast.from /\ glast.index = 1
    /\ gallery.shape.thumbnailWrapper
    /\ thumbnailRect(gallery, 1).left < containerRect(gallery).left

RanUpdateNavigationState == glast.op \in {"construct", "scroll", "resize"}

\* C6 as stated: after updateNavigationState() each control that exists is
\* disabled iff the offset is 0 (prev), is within 1px of the maximum (next).
C6_AsStated ==
    (RanUpdateNavigationState /\ gallery.shape.thumbnailWrapper) =>
        /\ gallery.shape.prevBtn => (gallery.prevDisabled <=> gallery.scrollLeft = 0)
        /\ gallery.shape.nextBtn =>
              (gallery.nextDisabled <=> maxScrollOf(gallery) - gallery.scrollLeft <= 1)

\* C6, amended: when both controls (and the scroll container) exist, after
\* updateNavigationState(), so after construction and every scroll and
\* resize event, prev is disabled iff the offset is 0 and next is disabled
\* iff the offset is within 1px of the maximum scroll.
C6_NavState ==
    (/\ RanUpdateNavigationState
     /\ gallery.shape.thumbnailWrapper
     /\ gallery.shape.prevBtn /\ gallery.shape.nextBtn) =>
        /\ gallery.prevDisabled <=> gallery.scrollLeft = 0
        /\ gallery.nextDisabled <=> maxScrollOf(gallery) - gallery.scrollLeft <= 1

\* a scroll event left the strip one pixel before its end
C6_Witness ==
    /\ glast.op = "scroll"
    /\ gallery.shape.prevBtn /\ gallery.shape.nextBtn
    /\ maxScrollOf(gallery) > 1
    /\ gallery.scrollLeft = maxScrollOf(gallery) - 1
    /\ gallery.nextDisabled /\ ~gallery.prevDisabled

\* C7: ensureThumbnailVisible(i) issues no scroll when thumbnail i lies
\* within the container's bounds and otherwise exactly one: by
\* left - container.left - 10 when the left edge is before the container's,
\* else by right - container.right + 10.
C7_EnsureVisible ==
    (Switched /\ gallery.shape.thumbnailWrapper) =>
        LET t == thumbnailRect(gallery, glast.index)
            c == containerRect(gallery)
        IN  IF t.left >= c.left /\ t.right <= c.right
            THEN gallery.scrolls = <<>>
            ELSE gallery.scrolls =
                   << IF t.left < c.left THEN t.left - c.left - 10
                                         ELSE t.right - c.right + 10 >>

\* the activated thumbnail stuck out of the container on both sides and one
\* scroll, to the left, was issued
C7_Witness ==
    /\ Switched /\ gallery.shape.thumbnailWrapper
    /\ thumbnailRect(gallery, glast.index).left < containerRect(gallery).left
    /\ thumbnailRect(gallery, glast.index).right > containerRect(gallery).right
    /\ Len(gallery.scrolls) = 1

\* C8 as stated: currentIndex is a valid index into the thumbnail list of
\* every gallery, the one without thumbnails included.
C8_AsStated == gallery.currentIndex \in 0..(gallery.shape.n - 1)

\* C8, amended: from the end of construction on and after any sequence of
\* activations, currentIndex is a valid index into the thumbnail list of
\* every gallery that has at least one thumbnail.
C8_CurrentIndexValid ==
    gallery.shape.n >= 1 => gallery.currentIndex \in 0..(gallery.shape.n - 1)

\* the last thumbnail of a three-item gallery was activated
C8_Witness ==
    /\ Switched /\ gallery.shape.n = 3 /\ gallery.currentIndex = 2

(***************************************************************************)
(* SizeGuideDrawer: behaviour under overlapping calls.                     *)
(***************************************************************************)
\* C11: the panel and the backdrop each have one parent, refs.details or the
\* wrapper, in every state reached by open(), close(), toggle() and Escape
\* with their continuations, and whenever no continuation is pending the
\* panel is in the wrapper if and only if refs.details carries 'open'.
C11_PanelMatchesState ==
    /\ panelParent \in {"refs", "wrapper"}
    /\ backdropParent \in {"refs", "wrapper"}
    /\ Quiet => (panelParent = "wrapper" <=> openAttr["refs"])

\* C12: whenever the drawer has come to rest closed (refs.details has no
\* 'open' attribute and no continuation is pending), whatever the
\* interleaving of open(), close(), toggle() and the continuations, the
\* body's overflow is '' and not left at 'hidden'.
C12_RestClosedUnlocked ==
    (Quiet /\ ~openAttr["refs"]) => bodyOverflow = ""

\* C13: focus is trapped only by the animation-end continuation of the open
\* transition, never inside open() itself; the close completion
\* continuation releases the trap; and once a close has completed with no
\* later open() call, the focus trap is not active and 'menu-open' is absent
\* from refs.details and from the wrapper, whatever the order in which the
\* open-side frame and animation continuations and the close-side
\* continuation fired.
C13_FocusTrapOrdering ==
    /\ [][focusTrap # "wrapper" /\ focusTrap' = "wrapper"
            => last'.op = "animend" /\ last'.kind = "trap"]_vars
    /\ [][last'.op = "animend" /\ last'.kind = "close"
            => focusTrap' = "none"]_vars
    /\ [](cycle = "closed" /\ Quiet
            => focusTrap = "none" /\ ~menuOpen["refs"] /\ ~wrapperMenuOpen)

\* C14: provided every registered animation-end continuation eventually
\* fires, every close() call is eventually followed by a state in which the
\* panel and the backdrop are back inside refs.details, the 'open'
\* attribute is removed and the wrapper's pointer-events are 'none'.
Restored ==
    /\ panelParent = "refs"
    /\ backdropParent = "refs"
    /\ ~openAttr["refs"]
    /\ pointerEvents = "none"

C14_CloseCompletes == (last.op = "close") ~> Restored

\* C15: when the details element that open() resolves has no summary,
\* open() changes nothing: no 'open' attribute, body overflow unchanged, no
\* relocation, no handler attached, wrapper pointer-events unchanged and no
\* continuation scheduled.
C15_OpenAbortsWithoutSummary ==
    [][(last'.op = "open" /\ ~shape.summary[getDetailsElement(last'.target)])
          => UNCHANGED dvars]_vars

C15_Witness ==
    /\ last.op = "open"
    /\ ~shape.summary[getDetailsElement(last.target)]
    /\ shape.drawer /\ shape.backdrop /\ shape.closeButton
    /\ ~openAttr[getDetailsElement(last.target)]
    /\ panelParent = "refs"
    /\ bodyOverflow = ""

(***************************************************************************)
(* ProductMediaGalleryMainThumbnails: absent nodes, zoom control.          *)
(***************************************************************************)
\* the container lacks a navigation button, the scroll wrapper, a hidden
\* media node or a content wrapper
Degraded ==
    \/ ~gallery.shape.prevBtn
    \/ ~gallery.shape.nextBtn
    \/ ~gallery.shape.thumbnailWrapper
    \/ gallery.shape.hidden # 0..(gallery.shape.n - 1)
    \/ ~gallery.shape.mediaContent
    \/ ~gallery.shape.newMediaContent

\* C16: for a gallery container that lacks a navigation button, the scroll
\* wrapper, the hidden media node of the requested index or the content
\* wrapper, construction and every later operation (activate, scroll,
\* ensureVisible, updateNavState, resize) completes without raising an
\* error, and leaves the visible state of the part that is affected as it
\* was: the buttons' disabled state, the scroll position, the main media.
C16_AbsenceIsSilent ==
    /\ [](Degraded => ~gallery.threw)
    /\ [][/\ ~(gallery.shape.prevBtn /\ gallery.shape.nextBtn) =>
                /\ gallery'.prevDisabled = gallery.prevDisabled
                /\ gallery'.nextDisabled = gallery.nextDisabled
          /\ ~gallery.shape.thumbnailWrapper =>
                /\ gallery'.scrollLeft = gallery.scrollLeft
                /\ gallery'.scrollTarget = gallery.scrollTarget
          /\ (glast'.op = "switchMainImage" /\ ~Replaceable(glast'.index)) =>
                gallery'.mainMedia = gallery.mainMedia]_vars

\* activate(i) with i # currentIndex on a gallery whose main-display
\* container or content wrapper (of the display or of the hidden nodes) is
\* absent
PartialSwitch ==
    /\ glast'.op = "switchMainImage"
    /\ glast'.index # glast'.from
    /\ \/ ~gallery.shape.mainImageContainer
       \/ ~gallery.shape.mediaContent
       \/ ~gallery.shape.newMediaContent

\* the marker moved from the old current thumbnail to i, currentIndex is i
\* and ensureVisible(i) ran
MarkerMoved ==
    /\ gallery'.active = (gallery.active \ {glast'.from}) \cup {glast'.index}
    /\ gallery'.currentIndex = glast'.index
    /\ IF gallery.shape.thumbnailWrapper
       THEN gallery'.scrolls =
                scrollsFor(thumbnailRect(gallery, glast'.index), containerRect(gallery))
       ELSE gallery'.threw

\* everything of the gallery but the marker, the index, the strip's pending
\* scroll and the zoom control is as it was
DisplayKept ==
    /\ gallery'.mainMedia = gallery.mainMedia
    /\ gallery'.shape = gallery.shape
    /\ gallery'.scrollLeft = gallery.scrollLeft
    /\ gallery'.clientWidth = gallery.clientWidth
    /\ gallery'.thumbnailsPerView = gallery.thumbnailsPerView
    /\ gallery'.prevDisabled = gallery.prevDisabled
    /\ gallery'.nextDisabled = gallery.nextDisabled
    /\ gallery'.resizeListener = gallery.resizeListener

ZoomKept ==
    /\ gallery'.zoomOnClick = gallery.zoomOnClick
    /\ gallery'.zoomData = gallery.zoomData

\* the zoom control is rewritten: container, hidden node i and control exist
ZoomRetargeted(i) ==
    /\ gallery.shape.mainImageContainer
    /\ i \in gallery.shape.hidden
    /\ gallery.shape.zoom # "none"

C18_ZoomInSync ==
    /\ (Switched /\ gallery.shape.zoom # "none" /\ glast.index \in gallery.shape.hidden) =>
          /\ gallery.currentIndex = glast.index
          /\ gallery.zoomData = {glast.index}
          /\ gallery.shape.zoom = "open" => gallery.zoomOnClick.open = {glast.index}
          /\ gallery.zoomOnClick.present = (gallery.shape.zoom \in {"noOpen", "open"})
    /\ (gallery.shape.zoom = "open" /\ gallery.shape.n > 0
            /\ gallery.shape.hidden = 0..(gallery.shape.n - 1)) =>
          /\ gallery.zoomOnClick.open = {gallery.currentIndex}
          /\ gallery.zoomData \in {{}, {gallery.currentIndex}}

C18_Witness ==
    /\ Switched
    /\ gallery.shape.zoom = "open"
    /\ glast.from = 1
    /\ glast.index = 2
    /\ gallery.currentIndex = 2
    /\ gallery.zoomOnClick.open = {2}
    /\ gallery.zoomData = {2}
    /\ gallery.mainMedia = {2}

(***************************************************************************)
(* Two SizeGuideDrawer instances: the shared scroll lock.                  *)
(***************************************************************************)
\* C19: with two drawer instances on one page and both open, closing one of
\* them sets the body's overflow to '' while the other is still open: the
\* lock is one flag on the body, not a count.
C19_ScrollLockShared ==
    [][(last'.op = "close" /\ openAttr["refs"] /\ second.openAttr["refs"]) =>
          /\ bodyOverflow' = ""
          /\ IF last'.via = "second"
             THEN openAttr'["refs"] /\ panelParent' = panelParent
             ELSE second'.openAttr["refs"] /\ second'.panelParent = second.panelParent]_vars

C19_Witness ==
    /\ last.op = "close"
    /\ last.via = "close"
    /\ last.wasOpen
    /\ second.openAttr["refs"]
    /\ second.panelParent = "wrapper"
    /\ second.menuOpen["refs"]
    /\ second.focusTrap = "wrapper"
    /\ second.frames = <<>> /\ second.anims = EmptyBag
    /\ bodyOverflow = ""

(***************************************************************************)
(* SizeGuideDrawer: the wrapper and the handles.                           *)
(***************************************************************************)
\* C20: in every reachable state, the wrapper's pointer-events are 'auto'
\* only while the panel is a child of the wrapper, and a non-null
\* #boundCloseClick or #boundBackdropClick means that its element (the
\* panel's close button, the backdrop) is in the wrapper with that handler
\* attached.
C20_WrapperHostsPanel ==
    /\ pointerEvents = "auto" => panelParent = "wrapper"
    /\ boundCloseClick # {} =>
          /\ panelParent = "wrapper"
          /\ shape.closeButton
          /\ boundCloseClick \subseteq closeListeners
    /\ boundBackdropClick # {} =>
          /\ backdropParent = "wrapper"
          /\ boundBackdropClick \subseteq backdropListeners
=============================================================================
